---------------------------- MODULE Spec2Model ----------------------------
(***************************************************************************)
(* GDriveIngestHelper (private_gpt/components/ingest/gdrive_ingest_helper): *)
(* listing of a Google Drive folder, download or structured fetch of every *)
(* listed entry, and assembly of the resulting Documents.                  *)
(*                                                                         *)
(* The remote drive, the docs API, the media download and the generic      *)
(* ingestion transformer are the environment: their answers are drawn from *)
(* small sets.  The helper itself is a sequential program; pc is its       *)
(* position.                                                               *)
(***************************************************************************)
EXTENDS Integers, Sequences, FiniteSets, TLC

(***************************************************************************)
(* Bounds of the model.                                                    *)
(***************************************************************************)
MaxEntries == 2      \* entries stored in the remote drive
MaxDocs == 2         \* documents one transformer call may return
MaxSize == 3         \* size of the structural-element lists that are enumerated

(***************************************************************************)
(* Program constants.                                                      *)
(***************************************************************************)
PageSize == 1000     \* pageSize of the files().list request

\* MIME types, as the sequence of their tokens (split at "/" and ".")
MimeFolder == <<"application", "vnd", "google-apps", "folder">>
MimeDocument == <<"application", "vnd", "google-apps", "document">>
MimeSpreadsheet == <<"application", "vnd", "google-apps", "spreadsheet">>
MimePlain == <<"text", "plain">>
MimeTypes == {MimeFolder, MimeDocument, MimeSpreadsheet, MimePlain}

\* `"google-apps" in file["mimeType"]`
ContainsGoogleApps(mimeType) == \E k \in DOMAIN mimeType : mimeType[k] = "google-apps"

None == <<"None">>   \* Python's None, where bytes were expected

Min(a, b) == IF a < b THEN a ELSE b

(***************************************************************************)
(* The remote drive.                                                       *)
(***************************************************************************)
RootId == "root"
EntryIds == <<"e1", "e2", "e3", "e4">>       \* in the order the API lists them
Ids == {EntryIds[k] : k \in 1..MaxEntries}

NameOf(id) == <<"name", id>>                 \* display name of an entry
BytesOf(id) == <<"bytes", id>>               \* stored media of an entry

VARIABLES
    remote,             \* id -> the entry the drive stores
    serverPage,         \* number of entries the server puts in one page
    recursive,          \* settings().gdrive.recursive
    load_trashed_files, \* settings().gdrive.load_trashed_files
    folder_id,          \* argument of transform_into_documents
    pc,                 \* position of the program
    files,              \* result of _get_all_files
    idx,                \* position of the loop `for file in files` (1-based)
    docs,               \* the accumulated documents
    content,            \* _handle_non_gdrive_file: the downloaded content
    path_to_tmp,        \* _handle_non_gdrive_file: the temporary file (0: none)
    pending,            \* value or exception leaving the try block
    fs,                 \* the temporary files that exist: path -> bytes
    created,            \* number of temporary files created so far
    exc,                \* the exception transform_into_documents raised
    returned,           \* the value transform_into_documents returned
    requests,           \* the API requests issued, in order
    hist,               \* per processed entry, what was done with it
    elements,           \* input of _read_structural_elements (extraction runs)
    text,               \* its result
    xpc                 \* position of the extraction run

vars == <<remote, serverPage, recursive, load_trashed_files, folder_id, pc, files,
          idx, docs, content, path_to_tmp, pending, fs, created, exc, returned,
          requests, hist, elements, text, xpc>>

(***************************************************************************)
(* _read_paragraph_element and _read_structural_elements.  A dict is a     *)
(* record, `"k" in d` is "k" \in DOMAIN d, a str is a sequence of          *)
(* characters and += is \o.                                                *)
(***************************************************************************)
ReadParagraphElement(element) ==
    IF "textRun" \notin DOMAIN element THEN <<>> ELSE element.textRun.content

RECURSIVE ParagraphLoop(_, _, _)
\* for elem in elements: text += cls._read_paragraph_element(elem)
ParagraphLoop(elems, k, t) ==
    IF k > Len(elems) THEN t
    ELSE ParagraphLoop(elems, k + 1, t \o ReadParagraphElement(elems[k]))

RECURSIVE ReadStructuralElements(_), CellsLoop(_, _, _), RowsLoop(_, _, _), ElementsLoop(_, _, _)

RECURSIVE CellsLoopAssign(_, _, _)
\* text = ... where the code has text += ...
CellsLoopAssign(cells, k, t) ==
    IF k > Len(cells) THEN t
    ELSE CellsLoopAssign(cells, k + 1, ReadStructuralElements(cells[k].content))

\* for cell in cells: text += cls._read_structural_elements(cell.get("content"))
CellsLoop(cells, k, t) ==
    IF k > Len(cells) THEN t
    ELSE CellsLoop(cells, k + 1, t \o ReadStructuralElements(cells[k].content))

\* for row in table.get("tableRows"): cells = row.get("tableCells"); ...
RowsLoop(rows, k, t) ==
    IF k > Len(rows) THEN t
    ELSE RowsLoop(rows, k + 1, CellsLoop(rows[k].tableCells, 1, t))

\* the text after the branch taken for one structural element
ReadValue(value, t) ==
    IF "paragraph" \in DOMAIN value
    THEN ParagraphLoop(value.paragraph.elements, 1, t)
    ELSE IF "table" \in DOMAIN value
    THEN RowsLoop(value.table.tableRows, 1, t)
    ELSE IF "tableOfContents" \in DOMAIN value
    THEN t \o ReadStructuralElements(value.tableOfContents.content)
    ELSE t

\* for value in elements: ...
ElementsLoop(els, k, t) ==
    IF k > Len(els) THEN t
    ELSE ElementsLoop(els, k + 1, ReadValue(els[k], t))

ReadStructuralElements(els) == ElementsLoop(els, 1, <<>>)

(***************************************************************************)
(* Structural elements of the docs API, as the helper reads them.          *)
(***************************************************************************)
TextRun(c) == [textRun |-> [content |-> c]]
InlineObject == [inlineObjectElement |-> [inlineObjectId |-> "o"]]
Paragraph(elems) == [paragraph |-> [elements |-> elems]]
Cell(c) == [content |-> c]
Row(cells) == [tableCells |-> cells]
Table(rows) == [table |-> [tableRows |-> rows]]
TableOfContents(c) == [tableOfContents |-> [content |-> c]]
SectionBreak == [sectionBreak |-> [sectionStyle |-> "s"]]

\* example document bodies
BodyABC == <<Paragraph(<<TextRun(<<"A">>), TextRun(<<"B">>), TextRun(<<"C">>)>>)>>
BodyTable ==
    <<Table(<<Row(<<Cell(<<Paragraph(<<TextRun(<<"1">>)>>)>>),
                    Cell(<<Paragraph(<<TextRun(<<"2">>)>>)>>)>>),
              Row(<<Cell(<<Paragraph(<<TextRun(<<"3">>)>>)>>),
                    Cell(<<Paragraph(<<TextRun(<<"4">>)>>)>>)>>)>>)>>
BodyTOC == <<TableOfContents(BodyABC), SectionBreak, Paragraph(<<InlineObject, TextRun(<<"D", "E">>)>>)>>
BodyNested ==
    <<Paragraph(<<TextRun(<<"A">>)>>),
      Table(<<Row(<<Cell(<<Table(<<Row(<<Cell(BodyABC)>>)>>), Paragraph(<<TextRun(<<"X">>)>>)>>),
                    Cell(<<TableOfContents(BodyTable)>>)>>)>>),
      Paragraph(<<TextRun(<<"Z">>)>>)>>

\* the bodies the docs API may answer with
DocBodies == {BodyABC, BodyTable}

(***************************************************************************)
(* Bounded enumeration of structural-element lists.  The size of a list is *)
(* the number of its paragraph elements, tables, tables of contents and    *)
(* empty containers.                                                       *)
(***************************************************************************)
ParagraphElements == {TextRun(<<"A">>), TextRun(<<"B">>), InlineObject}

RECURSIVE RunLists(_)
RunLists(n) ==
    IF n = 0 THEN {<<>>}
    ELSE {<<e>> \o r : e \in ParagraphElements, r \in RunLists(n - 1)}

RECURSIVE ElementLists(_), ElementsOfSize(_), RowLists(_), RowsOfSize(_), CellLists(_), CellsOfSize(_)

ElementLists(n) ==
    IF n = 0 THEN {<<>>}
    ELSE UNION {{<<e>> \o l : e \in ElementsOfSize(k), l \in ElementLists(n - k)} : k \in 1..n}

ElementsOfSize(n) ==
    {Paragraph(r) : r \in RunLists(n)}
        \cup (IF n = 1 THEN {Paragraph(<<>>), SectionBreak} ELSE {})
        \cup {TableOfContents(c) : c \in ElementLists(n - 1)}
        \cup {Table(rs) : rs \in RowLists(n - 1)}

RowLists(n) ==
    IF n = 0 THEN {<<>>}
    ELSE UNION {{<<r>> \o l : r \in RowsOfSize(k), l \in RowLists(n - k)} : k \in 1..n}

RowsOfSize(n) ==
    {Row(cs) : cs \in CellLists(n) \ {<<>>}} \cup (IF n = 1 THEN {Row(<<>>)} ELSE {})

CellLists(n) ==
    IF n = 0 THEN {<<>>}
    ELSE UNION {{<<c>> \o l : c \in CellsOfSize(k), l \in CellLists(n - k)} : k \in 1..n}

CellsOfSize(n) ==
    {Cell(c) : c \in ElementLists(n)} \cup (IF n = 1 THEN {Cell(<<>>)} ELSE {})

ExtractionInputs ==
    UNION {ElementLists(n) : n \in 0..MaxSize} \cup {BodyABC, BodyTable, BodyTOC, BodyNested}

(***************************************************************************)
(* The drive API.                                                          *)
(***************************************************************************)
\* the entries the drive may store: a parent is the root or a stored folder
Remotes ==
    {r \in [Ids -> [mimeType : MimeTypes, trashed : BOOLEAN, parent : {RootId} \cup Ids]] :
        \A id \in Ids : r[id].parent = RootId \/ r[r[id].parent].mimeType = MimeFolder}

\* files(id, name, mimeType, parents, trashed)
Entry(id, r) ==
    [id |-> id, name |-> NameOf(id), mimeType |-> r.mimeType,
     parents |-> {r.parent}, trashed |-> r.trashed]

\* q = "'<folder>' in parents", in the order of the API
Children(rem, folder) ==
    SelectSeq([k \in 1..MaxEntries |-> rem[EntryIds[k]]], LAMBDA e : folder \in e.parents)

\* the answer to files().list(...).execute(): the first page, and whether more follow
FilesList(rem, folder, page) ==
    LET all == Children(rem, folder)
        n == Min(Len(all), Min(page, PageSize))
    IN [files |-> SubSeq(all, 1, n), nextPageToken |-> n < Len(all)]

(***************************************************************************)
(* _get_all_files                                                          *)
(***************************************************************************)
RECURSIVE FilesLoopKeepsFolders(_, _, _, _)
\* the folder entries fall through to returns.append(file)
FilesLoopKeepsFolders(listed, k, returns, rec) ==
    IF k > Len(listed) THEN [exc |-> "none", returns |-> returns]
    ELSE IF listed[k].mimeType = MimeFolder /\ rec
    THEN [exc |-> "AttributeError", returns |-> returns]
    ELSE FilesLoopKeepsFolders(listed, k + 1, Append(returns, listed[k]), rec)

RECURSIVE FilesLoop(_, _, _, _)
\* for file in files: ...        cls has no _fetch_files_recursive
FilesLoop(listed, k, returns, rec) ==
    IF k > Len(listed) THEN [exc |-> "none", returns |-> returns]
    ELSE IF listed[k].mimeType = MimeFolder
    THEN IF rec THEN [exc |-> "AttributeError", returns |-> returns]
         ELSE FilesLoop(listed, k + 1, returns, rec)
    ELSE FilesLoop(listed, k + 1, Append(returns, listed[k]), rec)

Request(api, id, ok) == [api |-> api, id |-> id, ok |-> ok]

GetAllFiles ==
    /\ pc = "start"
    /\ \E ok \in BOOLEAN :
        /\ requests' = Append(requests, Request("files.list", folder_id, ok))
        /\ IF ~ok
           THEN /\ pc' = "raised"
                /\ exc' = "HttpError"
                /\ UNCHANGED <<files, idx>>
           ELSE LET results == FilesList(remote, folder_id, serverPage)
                    r == FilesLoop(results.files, 1, <<>>, recursive)
                IN IF r.exc # "none"
                   THEN /\ pc' = "raised"
                        /\ exc' = r.exc
                        /\ UNCHANGED <<files, idx>>
                   ELSE /\ pc' = "loop"
                        /\ files' = r.returns
                        /\ idx' = 1
                        /\ UNCHANGED exc
    /\ UNCHANGED <<remote, serverPage, recursive, load_trashed_files, folder_id, docs,
                   content, path_to_tmp, pending, fs, created, returned, hist,
                   elements, text, xpc>>

(***************************************************************************)
(* transform_into_documents: the loop over the listed files                *)
(***************************************************************************)
\* the loop body without its check of the trashed flag
DispatchIgnoresTrashed(file, load_trashed) ==
    IF file.mimeType = MimeDocument THEN "handle_gdoc"
    ELSE IF ContainsGoogleApps(file.mimeType) THEN "continue_unsupported"
    ELSE "handle_non_gdrive_file"

\* the loop body without its check for "google-apps"
DispatchNoUnsupported(file, load_trashed) ==
    IF file.trashed /\ ~load_trashed THEN "continue_trashed"
    ELSE IF file.mimeType = MimeDocument THEN "handle_gdoc"
    ELSE "handle_non_gdrive_file"

\* the branch the loop body takes for one file
Dispatch(file, load_trashed) ==
    IF file.trashed /\ ~load_trashed THEN "continue_trashed"
    ELSE IF file.mimeType = MimeDocument THEN "handle_gdoc"
    ELSE IF ContainsGoogleApps(file.mimeType) THEN "continue_unsupported"
    ELSE "handle_non_gdrive_file"

InLoop == pc = "loop" /\ idx <= Len(files)

\* Document(text=..., metadata={"document_id": document_id})
Document(t, document_id) == [text |-> t, metadata |-> [document_id |-> document_id]]

\* IngestionHelper.transform_file_into_documents: n documents read from the file
TransformFileIntoDocuments(name, data, n) ==
    [k \in 1..n |-> [text |-> data, metadata |-> [file_name |-> name, part |-> k]]]

\* docs.append(...)
DocsAppend(ds, d) == Append(ds, d)

\* docs = ... where the code has docs.extend(...)
DocsExtendReplaces(ds, new) == new

\* docs.extend(...)
DocsExtend(ds, new) == ds \o new

\* a finally block that only closes the file
UnlinkSkipped(fsys, path) == fsys

\* path_to_tmp.unlink()
Unlink(fsys, path) == [p \in DOMAIN fsys \ {path} |-> fsys[p]]

\* what was done with one entry of the listing
Handled(op, file, tmp, data, body, ret, raised) ==
    [op |-> op, id |-> file.id, name |-> file.name, tmp |-> tmp, data |-> data,
     body |-> body, ret |-> ret, raised |-> raised]

\* if file["trashed"] and not settings().gdrive.load_trashed_files: continue
SkipTrashed ==
    /\ InLoop
    /\ Dispatch(files[idx], load_trashed_files) = "continue_trashed"
    /\ idx' = idx + 1
    /\ hist' = Append(hist, Handled("continue_trashed", files[idx], 0, <<>>, <<>>, <<>>, "none"))
    /\ UNCHANGED <<remote, serverPage, recursive, load_trashed_files, folder_id, pc, files,
                   docs, content, path_to_tmp, pending, fs, created, exc, returned,
                   requests, elements, text, xpc>>

\* if "google-apps" in file["mimeType"]: logger.debug(...); continue
SkipUnsupported ==
    /\ InLoop
    /\ Dispatch(files[idx], load_trashed_files) = "continue_unsupported"
    /\ idx' = idx + 1
    /\ hist' = Append(hist, Handled("continue_unsupported", files[idx], 0, <<>>, <<>>, <<>>, "none"))
    /\ UNCHANGED <<remote, serverPage, recursive, load_trashed_files, folder_id, pc, files,
                   docs, content, path_to_tmp, pending, fs, created, exc, returned,
                   requests, elements, text, xpc>>

\* _handle_gdoc on the answer `doc` of the docs API, doc.get("body").get("content") = body
HandleGdocResult(body, document_id) == Document(ReadStructuralElements(body), document_id)

\* the failure of the fetch handled as _get_file_content handles its own: logged, entry skipped
GdocFetchSwallowed ==
    /\ requests' = Append(requests, Request("documents.get", files[idx].id, FALSE))
    /\ idx' = idx + 1
    /\ hist' = Append(hist, Handled("handle_gdoc", files[idx], 0, <<>>, <<>>, <<>>, "none"))
    /\ UNCHANGED <<docs, pc, exc>>

\* docs_service.documents().get(documentId=document_id).execute() raises: nothing catches it
GdocFetchFails ==
    /\ requests' = Append(requests, Request("documents.get", files[idx].id, FALSE))
    /\ pc' = "raised"
    /\ exc' = "HttpError"
    /\ UNCHANGED <<docs, idx, hist>>

\* docs.append(cls._handle_gdoc(creds, file['id']))
HandleGdoc ==
    /\ InLoop
    /\ Dispatch(files[idx], load_trashed_files) = "handle_gdoc"
    /\ \/ GdocFetchFails
       \/ \E body \in DocBodies :
          /\ requests' = Append(requests, Request("documents.get", files[idx].id, TRUE))
          /\ docs' = DocsAppend(docs, HandleGdocResult(body, files[idx].id))
          /\ idx' = idx + 1
          /\ hist' = Append(hist, Handled("handle_gdoc", files[idx], 0, <<>>, body, <<>>, "none"))
          /\ UNCHANGED <<pc, exc>>
    /\ UNCHANGED <<remote, serverPage, recursive, load_trashed_files, folder_id, files,
                   content, path_to_tmp, pending, fs, created, returned,
                   elements, text, xpc>>

(***************************************************************************)
(* _handle_non_gdrive_file, statement by statement                         *)
(***************************************************************************)
\* content = cls._get_file_content(service, file['id']): None on HttpError
GetFileContent ==
    /\ InLoop
    /\ Dispatch(files[idx], load_trashed_files) = "handle_non_gdrive_file"
    /\ \E ok \in BOOLEAN :
        /\ requests' = Append(requests, Request("files.get_media", files[idx].id, ok))
        /\ content' = IF ok THEN BytesOf(files[idx].id) ELSE None
    /\ pc' = "tmp"
    /\ UNCHANGED <<remote, serverPage, recursive, load_trashed_files, folder_id, files,
                   idx, docs, path_to_tmp, pending, fs, created, exc, returned, hist,
                   elements, text, xpc>>

\* with tempfile.NamedTemporaryFile(delete=False) as tmp: path_to_tmp = Path(tmp.name)
CreateTmp ==
    /\ pc = "tmp"
    /\ created' = created + 1
    /\ path_to_tmp' = created + 1
    /\ fs' = [p \in DOMAIN fs \cup {created + 1} |-> IF p \in DOMAIN fs THEN fs[p] ELSE <<>>]
    /\ pc' = "write"
    /\ UNCHANGED <<remote, serverPage, recursive, load_trashed_files, folder_id, files,
                   idx, docs, content, pending, exc, returned, requests, hist,
                   elements, text, xpc>>

\* path_to_tmp.write_bytes(content): TypeError when content is None
WriteBytes ==
    /\ pc = "write"
    /\ IF content = None
       THEN /\ pending' = [exc |-> "TypeError", value |-> <<>>]
            /\ hist' = Append(hist, Handled("handle_non_gdrive_file", files[idx], path_to_tmp,
                                            <<>>, <<>>, <<>>, "TypeError"))
            /\ pc' = "finally"
            /\ UNCHANGED fs
       ELSE /\ fs' = [fs EXCEPT ![path_to_tmp] = content]
            /\ pc' = "transform"
            /\ UNCHANGED <<pending, hist>>
    /\ UNCHANGED <<remote, serverPage, recursive, load_trashed_files, folder_id, files,
                   idx, docs, content, path_to_tmp, created, exc, returned, requests,
                   elements, text, xpc>>

\* return IngestionHelper.transform_file_into_documents(file['name'], path_to_tmp)
Transform ==
    /\ pc = "transform"
    /\ \/ \E n \in 0..MaxDocs :
            LET ret == TransformFileIntoDocuments(files[idx].name, fs[path_to_tmp], n)
            IN /\ pending' = [exc |-> "none", value |-> ret]
               /\ hist' = Append(hist, Handled("handle_non_gdrive_file", files[idx], path_to_tmp,
                                               fs[path_to_tmp], <<>>, ret, "none"))
       \/ \* the transformer raises
          /\ pending' = [exc |-> "TransformError", value |-> <<>>]
          /\ hist' = Append(hist, Handled("handle_non_gdrive_file", files[idx], path_to_tmp,
                                          fs[path_to_tmp], <<>>, <<>>, "TransformError"))
    /\ pc' = "finally"
    /\ UNCHANGED <<remote, serverPage, recursive, load_trashed_files, folder_id, files,
                   idx, docs, content, path_to_tmp, fs, created, exc, returned, requests,
                   elements, text, xpc>>

\* finally: tmp.close(); path_to_tmp.unlink()   then docs.extend(...) or the exception
Finally ==
    /\ pc = "finally"
    /\ fs' = Unlink(fs, path_to_tmp)
    /\ path_to_tmp' = 0
    /\ pending' = [exc |-> "none", value |-> <<>>]
    /\ IF pending.exc # "none"
       THEN /\ pc' = "raised"
            /\ exc' = pending.exc
            /\ UNCHANGED <<docs, idx>>
       ELSE /\ docs' = DocsExtend(docs, pending.value)
            /\ idx' = idx + 1
            /\ pc' = "loop"
            /\ UNCHANGED exc
    /\ UNCHANGED <<remote, serverPage, recursive, load_trashed_files, folder_id, files,
                   content, created, returned, requests, hist, elements, text, xpc>>

\* return docs
Return ==
    /\ pc = "loop"
    /\ idx > Len(files)
    /\ returned' = docs
    /\ pc' = "done"
    /\ UNCHANGED <<remote, serverPage, recursive, load_trashed_files, folder_id, files,
                   idx, docs, content, path_to_tmp, pending, fs, created, exc, requests,
                   hist, elements, text, xpc>>

(***************************************************************************)
(* A call of _read_structural_elements on its own.                         *)
(***************************************************************************)
Extract ==
    /\ xpc = "call"
    /\ text' = ReadStructuralElements(elements)
    /\ xpc' = "returned"
    /\ UNCHANGED <<remote, serverPage, recursive, load_trashed_files, folder_id, pc, files,
                   idx, docs, content, path_to_tmp, pending, fs, created, exc, returned,
                   requests, hist, elements>>

(***************************************************************************)
(* Specifications                                                          *)
(***************************************************************************)
Idle ==
    /\ files = <<>>
    /\ idx = 1
    /\ docs = <<>>
    /\ content = None
    /\ path_to_tmp = 0
    /\ pending = [exc |-> "none", value |-> <<>>]
    /\ fs = <<>>
    /\ created = 0
    /\ exc = "none"
    /\ returned = <<>>
    /\ requests = <<>>
    /\ hist = <<>>

\* a call of transform_into_documents(folder_id) on some drive, with some settings
Init ==
    /\ \E r \in Remotes : remote = [id \in Ids |-> Entry(id, r[id])]
    /\ serverPage \in 1..MaxEntries
    /\ recursive \in BOOLEAN
    /\ load_trashed_files \in BOOLEAN
    /\ folder_id = RootId
    /\ pc = "start"
    /\ Idle
    /\ elements = <<>>
    /\ text = <<>>
    /\ xpc = "idle"

Next ==
    \/ GetAllFiles
    \/ SkipTrashed
    \/ SkipUnsupported
    \/ HandleGdoc
    \/ GetFileContent
    \/ CreateTmp
    \/ WriteBytes
    \/ Transform
    \/ Finally
    \/ Return

Spec == Init /\ [][Next]_vars

\* a call of _read_structural_elements(elements)
InitExtract ==
    /\ remote = <<>>
    /\ serverPage = 1
    /\ recursive = FALSE
    /\ load_trashed_files = FALSE
    /\ folder_id = RootId
    /\ pc = "idle"
    /\ Idle
    /\ elements \in ExtractionInputs
    /\ text = <<>>
    /\ xpc = "call"

NextExtract == Extract

SpecExtract == InitExtract /\ [][NextExtract]_vars

(***************************************************************************)
(* Vocabulary of the properties                                            *)
(***************************************************************************)
\* some request of this kind was answered with an error
Failed(api) == \E k \in DOMAIN requests : requests[k].api = api /\ ~requests[k].ok

\* the ids a media download or a document fetch was issued for
ContentRequestIds ==
    {requests[k].id : k \in {j \in DOMAIN requests :
                                requests[j].api \in {"files.get_media", "documents.get"}}}

\* the positions in ds of the documents made from the entry
DocsOf(ds, file) ==
    {k \in DOMAIN ds :
        IF "document_id" \in DOMAIN ds[k].metadata
        THEN ds[k].metadata.document_id = file.id
        ELSE ds[k].metadata.file_name = file.name}

\* the listing request was answered and _get_all_files is over
ListingOver == requests # <<>> /\ requests[1].ok

ListingReturned == ListingOver /\ exc # "AttributeError"

IsFolder(e) == e.mimeType = MimeFolder

\* unsupported provider-native type
Unsupported(e) == ContainsGoogleApps(e.mimeType) /\ e.mimeType # MimeDocument

Excluded(e) == e.trashed /\ ~load_trashed_files

RECURSIVE Reach(_, _)
\* the folders reached from those of S in at most n steps along the parent links
Reach(S, n) ==
    IF n = 0 THEN S
    ELSE Reach(S \cup {id \in Ids : IsFolder(remote[id]) /\ remote[id].parents \cap S # {}}, n - 1)

\* the non-folder descendants of the starting folder
Descendants ==
    {id \in Ids : ~IsFolder(remote[id])
                  /\ remote[id].parents \cap Reach({folder_id}, MaxEntries) # {}}

RECURSIVE Flatten(_)
\* the concatenation of a sequence of sequences
Flatten(ss) == IF ss = <<>> THEN <<>> ELSE Head(ss) \o Flatten(Tail(ss))

RECURSIVE TextRuns(_)
\* the text-run contents of a list of structural elements, depth first, in source order
TextRunsOf(value) ==
    IF "paragraph" \in DOMAIN value
    THEN [k \in DOMAIN value.paragraph.elements |->
            LET e == value.paragraph.elements[k]
            IN IF "textRun" \in DOMAIN e THEN e.textRun.content ELSE <<>>]
    ELSE IF "table" \in DOMAIN value
    THEN Flatten([r \in DOMAIN value.table.tableRows |->
            LET cells == value.table.tableRows[r].tableCells
            IN Flatten([c \in DOMAIN cells |-> TextRuns(cells[c].content)])])
    ELSE IF "tableOfContents" \in DOMAIN value
    THEN TextRuns(value.tableOfContents.content)
    ELSE <<>>

TextRuns(els) == Flatten([k \in DOMAIN els |-> TextRunsOf(els[k])])

(***************************************************************************)
(* C1.  A failed media download of an ordinary file does not abort the     *)
(* run: whenever a download has failed, transform_into_documents is not    *)
(* ended by an error of the handling of that entry (it may only end in an  *)
(* error that a listing, a document fetch or the transformer raised), and  *)
(* the failed entry contributes no document.                               *)
(***************************************************************************)
C1_DownloadFailureDoesNotAbort ==
    Failed("files.get_media") =>
        /\ pc = "raised" => exc \in {"HttpError", "TransformError"}
        /\ \A k \in DOMAIN requests :
              requests[k].api = "files.get_media" /\ ~requests[k].ok =>
                  \A f \in DOMAIN files :
                      files[f].id = requests[k].id => DocsOf(docs, files[f]) = {}

\* every folder's children fit in one page of the API's answer
OnePageEach ==
    \A f \in {folder_id} \cup Ids : ~FilesList(remote, f, serverPage).nextPageToken

(***************************************************************************)
(* C2.  With recursive enabled, once the listing request is answered,      *)
(* _get_all_files returns, and its result holds every non-folder           *)
(* descendant of the starting folder exactly once and nothing else.        *)
(* Stated for the drives whose folders are each listed in one page, where  *)
(* pagination (C8) plays no part.                                          *)
(***************************************************************************)
C2_RecursiveListsEveryDescendantOnce ==
    recursive /\ OnePageEach /\ ListingOver =>
        /\ exc # "AttributeError"
        /\ pc # "start"
        /\ \A d \in Descendants : Cardinality({k \in DOMAIN files : files[k].id = d}) = 1
        /\ \A k \in DOMAIN files : files[k].id \in Descendants

(***************************************************************************)
(* C3.  With recursive disabled, _get_all_files returns the entries of the *)
(* answer that are not folders, in order, and the only listing request     *)
(* ever issued is the one for the starting folder.                         *)
(***************************************************************************)
C3_NonRecursiveSkipsFolders ==
    ~recursive =>
        /\ \A k \in DOMAIN files : ~IsFolder(files[k])
        /\ \A k \in DOMAIN requests :
              requests[k].api = "files.list" => k = 1 /\ requests[k].id = folder_id
        /\ ListingOver =>
              /\ pc # "start"
              /\ exc # "AttributeError"
              /\ files = SelectSeq(FilesList(remote, folder_id, serverPage).files,
                                   LAMBDA e : ~IsFolder(e))

C3_Witness ==
    /\ ~recursive
    /\ pc = "done"
    /\ Len(requests) = 1
    /\ \E id \in Ids : IsFolder(remote[id]) /\ folder_id \in remote[id].parents
                       /\ \E c \in Ids : ~IsFolder(remote[c]) /\ id \in remote[c].parents

(***************************************************************************)
(* C4.  The temporary file of an entry exists only while that entry is     *)
(* handled by _handle_non_gdrive_file: at most one temporary file exists   *)
(* at any moment, and none exists in the loop between two entries, when    *)
(* transform_into_documents has returned or when it has raised (the        *)
(* transformer returned, the transformer raised, or the content was None). *)
(***************************************************************************)
C4_TemporaryFileDeleted ==
    /\ Cardinality(DOMAIN fs) <= 1
    /\ DOMAIN fs \subseteq {path_to_tmp}
    /\ pc \in {"start", "loop", "tmp", "done", "raised"} => DOMAIN fs = {}

C4_Witness ==
    /\ pc = "raised"
    /\ exc = "TransformError"
    /\ created = 2
    /\ DOMAIN fs = {}

\* the branch of the loop body that a MIME type alone selects
BranchOfMime(mimeType) ==
    IF mimeType = MimeDocument THEN "handle_gdoc"
    ELSE IF ContainsGoogleApps(mimeType) THEN "continue_unsupported"
    ELSE "handle_non_gdrive_file"

(***************************************************************************)
(* C5.  With load_trashed_files false, a trashed entry is skipped: no      *)
(* download or fetch is issued for it, no temporary file is created for it *)
(* and no document comes from it.  With load_trashed_files true, the       *)
(* branch taken for an entry depends on its MIME type alone.               *)
(***************************************************************************)
C5_TrashedFiltering ==
    /\ ~load_trashed_files =>
          \A k \in DOMAIN files :
              files[k].trashed =>
                  /\ files[k].id \notin ContentRequestIds
                  /\ DocsOf(docs, files[k]) = {}
                  /\ k <= Len(hist) => hist[k].op = "continue_trashed" /\ hist[k].tmp = 0
                  /\ pc \in {"tmp", "write", "transform", "finally"} => idx # k
    /\ load_trashed_files =>
          \A k \in DOMAIN hist : hist[k].op = BranchOfMime(files[k].mimeType)

C5_Witness ==
    /\ ~load_trashed_files
    /\ pc = "done"
    /\ Len(files) = 2
    /\ files[1].trashed /\ files[1].mimeType = MimePlain
    /\ ~files[2].trashed /\ files[2].mimeType = MimePlain
    /\ Len(returned) = 2

(***************************************************************************)
(* C6.  _read_structural_elements returns the concatenation, without       *)
(* delimiters, of the text-run contents met depth first, top to bottom and *)
(* left to right; elements without a text run and other node kinds add     *)
(* nothing.                                                                *)
(***************************************************************************)
C6_ExtractionIsDepthFirstConcatenation ==
    xpc = "returned" =>
        /\ text = Flatten(TextRuns(elements))
        /\ elements = BodyABC => text = <<"A", "B", "C">>
        /\ elements = BodyTable => text = <<"1", "2", "3", "4">>
        /\ elements = BodyTOC => text = <<"A", "B", "C", "D", "E">>

C6_Witness ==
    /\ xpc = "returned"
    /\ elements = BodyNested
    /\ text = <<"A", "A", "B", "C", "X", "1", "2", "3", "4", "Z">>

\* the documents the k-th listed entry accounts for
Contribution(k) ==
    LET file == files[k]
        h == hist[k]
    IN IF Excluded(file) \/ Unsupported(file) THEN <<>>
       ELSE IF file.mimeType = MimeDocument
       THEN <<[text |-> Flatten(TextRuns(h.body)), metadata |-> [document_id |-> file.id]]>>
       ELSE h.ret

(***************************************************************************)
(* C7.  The returned sequence is the concatenation, in listing order, of   *)
(* the contribution of every entry: nothing for a skipped entry, one       *)
(* Document with the entry's id and the extraction of the fetched body for *)
(* a native document, and the documents the transformer returned, called   *)
(* with the entry's name and a file holding the stored bytes, for an       *)
(* ordinary file.                                                          *)
(***************************************************************************)
C7_ResultIsConcatenationInListingOrder ==
    pc = "done" =>
        /\ Len(hist) = Len(files)
        /\ returned = Flatten([k \in DOMAIN files |-> Contribution(k)])
        /\ \A k \in DOMAIN files :
              hist[k].op = "handle_non_gdrive_file" =>
                  /\ hist[k].name = files[k].name
                  /\ hist[k].data = BytesOf(files[k].id)

C7_Witness ==
    /\ pc = "done"
    /\ Len(files) = 2
    /\ hist[1].op = "handle_non_gdrive_file" /\ Len(hist[1].ret) = 2
    /\ hist[2].op = "handle_gdoc"
    /\ Len(returned) = 3

(***************************************************************************)
(* C8.  The result of _get_all_files holds every non-folder child of       *)
(* folder_id, of whatever page of the listing.                             *)
(***************************************************************************)
C8_ListingFollowsPagination ==
    ListingReturned =>
        \A id \in Ids :
            ~IsFolder(remote[id]) /\ folder_id \in remote[id].parents =>
                \E k \in DOMAIN files : files[k].id = id

(***************************************************************************)
(* C9.  A failed document fetch ends the run: it is the last request       *)
(* issued, transform_into_documents has raised the error and returns       *)
(* nothing, and no entry after the failing one is handled.                 *)
(***************************************************************************)
C9_DocumentFetchFailurePropagates ==
    \A k \in DOMAIN requests :
        requests[k].api = "documents.get" /\ ~requests[k].ok =>
            /\ k = Len(requests)
            /\ pc = "raised"
            /\ exc = "HttpError"
            /\ idx <= Len(files) /\ files[idx].id = requests[k].id
            /\ Len(hist) = idx - 1
            /\ DOMAIN fs = {}

C9_Witness ==
    /\ pc = "raised"
    /\ Failed("documents.get")
    /\ idx = 1
    /\ Len(files) = 2
    /\ ~Excluded(files[2])

(***************************************************************************)
(* C10.  An entry of an unsupported provider-native type is skipped        *)
(* without error: no request is issued for it, no temporary file is        *)
(* created for it, no document comes from it, and the loop goes on with    *)
(* the next entry.                                                         *)
(***************************************************************************)
C10_UnsupportedTypeSkipped ==
    \A k \in DOMAIN files :
        Unsupported(files[k]) =>
            /\ files[k].id \notin ContentRequestIds
            /\ DocsOf(docs, files[k]) = {}
            /\ k <= Len(hist) =>
                  /\ hist[k].op = IF Excluded(files[k]) THEN "continue_trashed"
                                  ELSE "continue_unsupported"
                  /\ hist[k].tmp = 0
                  /\ idx > k
            /\ idx = k => pc = "loop"

C10_Witness ==
    /\ pc = "done"
    /\ Len(files) = 2
    /\ Unsupported(files[1]) /\ ~Excluded(files[1])
    /\ hist[2].op = "handle_non_gdrive_file"
    /\ Len(returned) = 1

=============================================================================
